---- MODULE Spec2Model ----
(***************************************************************************)
(* Model of the tool handlers of the Personal-Assistant repository:       *)
(*   src/Jarvis_window_CTRL.py  (system / file / launch handlers)          *)
(*   src/agent.py               (file and screen reading tools)            *)
(*   src/brain.py               (entrypoint of a job, under BrainSpec)     *)
(* One tool call is in flight at a time.  An action is the code of a       *)
(* handler between two suspension points (await) or around one blocking    *)
(* call; the host (optional libraries, filesystem, subprocess) is the      *)
(* environment.  Python strings are TLA+ strings; dicts are records.       *)
(***************************************************************************)
EXTENDS Integers, Sequences, FiniteSets, TLC

\* the keys of the dicts and records of the model, numbered in the order in
\* which every constructor lists them
Keys ==
    [pending |-> 1, raised |-> 2, val |-> 3, kind |-> 4, value |-> 5,
     msg |-> 6, pc |-> 7, ctx |-> 8, call |-> 9, h |-> 10, ok |-> 11,
     returncode |-> 12, error |-> 13, stdout |-> 14, stderr |-> 15,
     action |-> 16, cmd |-> 17, output |-> 18, rc |-> 19, fallback |-> 20,
     path |-> 21, p |-> 22, exists |-> 23, text |-> 24, fault |-> 25,
     items |-> 26, opened |-> 27, ran |-> 28, present |-> 29, percent |-> 30,
     power_plugged |-> 31, plugged_in |-> 32, sent_to |-> 33,
     phone_number |-> 34, message |-> 35, app_arg |-> 36, app |-> 37,
     query |-> 38, folder |-> 39, section |-> 40, uri |-> 41,
     filename |-> 42, file |-> 43, screen |-> 44, area |-> 45, at |-> 46,
     i |-> 47, ext |-> 48, op |-> 49, label |-> 50, name |-> 51,
     target |-> 52, st |-> 53, hangs |-> 54, awaited |-> 55, x |-> 56,
     y |-> 57, width |-> 58, height |-> 59, prompts |-> 60, session |-> 61,
     trace |-> 62, thrown |-> 63]

VARIABLES
    deps,      \* optional dependencies found at import time
    fs,        \* host filesystem: resolved path -> "absent" | "dir" | "file"
    pc,        \* position of the call in flight
    call,      \* the handler in flight, its arguments and locals
    result,    \* value returned by the call (NoResult while in flight)
    exc,       \* message of the exception that left the handler (None if none)
    proc,      \* the subprocess spawned by the call in flight
    launched,  \* targets handed to os.startfile / os.system / webbrowser.open
    used,      \* devices and files the call in flight has read or captured from
    blocking,  \* execution context of the blocking operation in progress
    otherRan   \* another task of the event loop ran during this call

vars ==
    <<deps, fs, pc, call, result, exc, proc, launched, used, blocking, otherRan>>

----------------------------------------------------------------------------
(* Python values *)

\* Python's None (a value different from every string the model uses)
None == "<None>"

\* no value returned yet
NoResult == [pending |-> TRUE]

\* truthiness of an Optional[str]
Truthy(v) == v # None /\ v # ""

\* Python's `a or b`
PyOr(a, b) == IF Truthy(a) THEN a ELSE b

\* dict.get(k): the value, or None when the key is missing
Get(d, k) == IF k \in DOMAIN d THEN d[k] ELSE None

\* `pat in s` for strings
Contains(s, pat) ==
    \E i \in 1..(Len(s) - Len(pat) + 1) : SubSeq(s, i, i + Len(pat) - 1) = pat

\* s.startswith(pat)
StartsWith(s, pat) == Len(s) >= Len(pat) /\ SubSeq(s, 1, Len(pat)) = pat

\* s[:n]
Take(s, n) == SubSeq(s, 1, IF Len(s) < n THEN Len(s) ELSE n)

\* characters str.strip() removes
Whitespace == {" ", "\t", "\n", "\r"}

RECURSIVE LStrip(_)
LStrip(s) ==
    IF Len(s) > 0 /\ SubSeq(s, 1, 1) \in Whitespace
    THEN LStrip(SubSeq(s, 2, Len(s)))
    ELSE s

RECURSIVE RStrip(_)
RStrip(s) ==
    IF Len(s) > 0 /\ SubSeq(s, Len(s), Len(s)) \in Whitespace
    THEN RStrip(SubSeq(s, 1, Len(s) - 1))
    ELSE s

\* str.strip()
Strip(s) == RStrip(LStrip(s))

\* str.lower() on one character
LowerChar(c) ==
    LET upper == "ABCDEFGHIJKLMNOPQRSTUVWXYZ"
        lower == "abcdefghijklmnopqrstuvwxyz"
        at == {i \in 1..Len(upper) : SubSeq(upper, i, i) = c}
    IN  IF at = {} THEN c
        ELSE LET i == CHOOSE i \in at : TRUE IN SubSeq(lower, i, i)

RECURSIVE Lower(_)
\* str.lower()
Lower(s) ==
    IF Len(s) = 0 THEN ""
    ELSE LowerChar(SubSeq(s, 1, 1)) \o Lower(SubSeq(s, 2, Len(s)))

RECURSIVE Join(_)
\* " ".join(cmd)
Join(cmd) ==
    IF Len(cmd) = 0 THEN ""
    ELSE IF Len(cmd) = 1 THEN cmd[1]
    ELSE cmd[1] \o " " \o Join(Tail(cmd))

RECURSIVE Rep(_, _)
\* s * n
Rep(s, n) ==
    IF n = 0 THEN ""
    ELSE IF n % 2 = 0 THEN LET h == Rep(s, n \div 2) IN h \o h
    ELSE Rep(s, n - 1) \o s

----------------------------------------------------------------------------
(* The host *)

\* optional libraries / programs probed at import time
Deps == {"psutil", "cv2", "tesseract", "fitz", "docx"}

\* Path.home()
Home == "C:/Users/u"

\* os.getcwd()
Cwd == "C:/work"

\* Path.home() / "NewFolder_Jarvis"
DefaultNewFolder == Home \o "/" \o "NewFolder_Jarvis"

\* Path.resolve(): an absolute path stays, a relative one is taken from cwd
Resolve(p) == IF StartsWith(p, "C:/") THEN p ELSE Cwd \o "/" \o p

\* Path.home() / "Pictures" / "JarvisPhotos"
PhotoDir == Home \o "/Pictures/JarvisPhotos"

\* Path.home() / "Documents"
DocumentsDir == Home \o "/Documents"

\* Path.home() / "Videos"
VideosDir == Home \o "/Videos"

\* the paths of the host whose kind the model follows
Paths == {DefaultNewFolder, Cwd \o "/d1", PhotoDir}

\* str(e) of the OSError raised when a program or path is not found
OSErrMsg == "[WinError 2] The system cannot find the file specified"

\* str(e) of the FileExistsError raised by mkdir on an existing file
ExistsErrMsg == "[WinError 183] Cannot create a file when that file already exists"

\* str(e) of the PermissionError raised by a refused operation
PermErrMsg == "[WinError 5] Access is denied"

\* no subprocess spawned by the call in flight
NoProc ==
    [returncode |-> None, st |-> "none", hangs |-> FALSE, awaited |-> FALSE]

\* no handler in flight
NoCall == [h |-> "none"]

\* host configurations: every dependency found, one missing, or none found
HostDeps == {Deps, {}} \cup {Deps \ {d} : d \in Deps}

\* what is at path `p` on a host with filesystem `f`
KindOf(f, p) ==
    LET r == Resolve(p)
    IN  IF r \in Paths THEN f[r]
        ELSE IF r \in {Home, Cwd, DocumentsDir, VideosDir} THEN "dir"
        ELSE "absent"

\* Path.exists()
Exists(f, p) == KindOf(f, p) # "absent"

\* Path.is_dir()
IsDir(f, p) == KindOf(f, p) = "dir"

----------------------------------------------------------------------------
(* Control of one tool call *)

\* positions at which no call is in flight
Free == {"idle", "done", "raised", "cancelled"}

\* positions at which the handler is suspended at an await
Awaiting == {"spawn", "communicate", "spawn_app", "thread"}

\* the handler is entered: per-call state is fresh
Enter ==
    /\ pc \in Free
    /\ proc' = NoProc
    /\ launched' = {}
    /\ used' = {}

\* the handler returns `v` to the runtime
Return(v) ==
    /\ pc' = "done"
    /\ result' = v
    /\ exc' = None
    /\ blocking' = "none"
    /\ otherRan' = FALSE

\* an exception with message `msg` leaves the handler
Raise(msg) ==
    /\ pc' = "raised"
    /\ result' = NoResult
    /\ exc' = msg
    /\ blocking' = "none"
    /\ otherRan' = FALSE

\* the handler suspends at position `p`; its pending operation runs in `ctx`
Suspend(p, ctx) ==
    /\ pc' = p
    /\ result' = NoResult
    /\ exc' = None
    /\ blocking' = ctx
    /\ UNCHANGED otherRan

\* what a handler does next: return a value, let an exception out, or wait
Ret(v) == [kind |-> "return", value |-> v]
Exc(msg) == [kind |-> "raise", msg |-> msg]
Wait(p, ctx, c) == [kind |-> "wait", pc |-> p, ctx |-> ctx, call |-> c]

\* carry out the next step `n` of the call `c`
Goto(c, n) ==
    CASE n.kind = "return" -> Return(n.value) /\ call' = c
      [] n.kind = "raise"  -> Raise(n.msg) /\ call' = c
      [] n.kind = "wait"   -> Suspend(n.pc, n.ctx) /\ call' = n.call

\* the Failure envelope built by `except Exception as e`
Failure(msg) == [ok |-> FALSE, error |-> msg]

----------------------------------------------------------------------------
(* _run_async and the handlers built on it *)

\* raw bytes a command may write to stdout / stderr
RawOutputs == {"", "Access is denied.(5)\r\n"}

\* exit codes of the commands (1116: no shutdown was in progress)
ReturnCodes == {0, 1, 1116}

\* _run_async: the dict returned when the process ran to its end
run_async_ok(rc, out, err) ==
    [returncode |-> rc, stdout |-> Strip(out), stderr |-> Strip(err)]

\* _run_async: the dict returned by `except Exception as e`
run_async_failed(msg) == [returncode |-> -1, error |-> msg]

\* shutdown_system: cmd
shutdown_cmd(force) ==
    <<"shutdown", "/s", "/t", "0">> \o (IF force THEN <<"/f">> ELSE <<>>)

\* restart_system: cmd
restart_cmd(force) ==
    <<"shutdown", "/r", "/t", "0">> \o (IF force THEN <<"/f">> ELSE <<>>)

\* shutdown_system: what it returns once _run_async has returned `res`
shutdown_system_return(c, res) ==
    [ok |-> TRUE, action |-> "shutdown", cmd |-> Join(c.cmd)]

\* restart_system: what it returns once _run_async has returned `res`
restart_system_return(c, res) ==
    [ok |-> TRUE, action |-> "restart", cmd |-> Join(c.cmd)]

\* cancel_shutdown: what it returns once _run_async has returned `res`
cancel_shutdown_return(c, res) ==
    IF Get(res, "returncode") = 0
    THEN [ok |-> TRUE, action |-> "cancel_shutdown"]
    ELSE [ok |-> FALSE, error |-> PyOr(Get(res, "stderr"), Get(res, "stdout"))]

\* wifi_status: what it returns once _run_async has returned `res`
wifi_status_return(c, res) == [ok |-> TRUE, output |-> Get(res, "stdout")]

\* bluetooth_status: what it returns once _run_async has returned `res`
bluetooth_status_return(c, res) == [ok |-> TRUE, output |-> Get(res, "stdout")]

\* the handlers that await _run_async
AdapterHandlers ==
    {"shutdown_system", "restart_system", "cancel_shutdown",
     "wifi_status", "bluetooth_status"}

\* the handler resumes after `await _run_async(cmd)` with `res`
AfterRunAsync(c, res) ==
    CASE c.h = "shutdown_system"  -> Ret(shutdown_system_return(c, res))
      [] c.h = "restart_system"   -> Ret(restart_system_return(c, res))
      [] c.h = "cancel_shutdown"  -> Ret(cancel_shutdown_return(c, res))
      [] c.h = "wifi_status"      -> Ret(wifi_status_return(c, res))
      [] c.h = "bluetooth_status" -> Ret(bluetooth_status_return(c, res))

\* a handler is called and reaches `await asyncio.create_subprocess_exec(*cmd)`
CallAdapter(h, cmd) ==
    /\ Enter
    /\ Goto([h |-> h, cmd |-> cmd], Wait("spawn", "none", [h |-> h, cmd |-> cmd]))
    /\ UNCHANGED <<deps, fs>>

shutdown_system ==
    \E force \in BOOLEAN : CallAdapter("shutdown_system", shutdown_cmd(force))

restart_system ==
    \E force \in BOOLEAN : CallAdapter("restart_system", restart_cmd(force))

cancel_shutdown == CallAdapter("cancel_shutdown", <<"shutdown", "/a">>)

wifi_status ==
    CallAdapter("wifi_status", <<"netsh", "wlan", "show", "interfaces">>)

bluetooth_status ==
    CallAdapter("bluetooth_status",
                <<"powershell", "-Command", "Get-PnpDevice -Class Bluetooth">>)

\* _run_async: create_subprocess_exec started the process; now at communicate().
\* The command either exits at some point or never does.
run_async_spawned ==
    /\ pc = "spawn"
    /\ \E hangs \in BOOLEAN :
          proc' = [returncode |-> None, st |-> "running", hangs |-> hangs,
                   awaited |-> TRUE]
    /\ Suspend("communicate", "subprocess")
    /\ UNCHANGED <<deps, fs, call, launched, used>>

\* _run_async: create_subprocess_exec raised (program not found); the except
\* clause builds the dict and the handler runs on to its return
run_async_spawn_failed ==
    /\ pc = "spawn"
    /\ Goto(call, AfterRunAsync(call, run_async_failed(OSErrMsg)))
    /\ UNCHANGED <<deps, fs, proc, launched, used>>

\* _run_async: the process exited, communicate() returns its output and the
\* handler runs on to its return
run_async_communicated ==
    /\ pc = "communicate"
    /\ ~proc.hangs
    /\ \E rc \in ReturnCodes, out \in RawOutputs, err \in RawOutputs :
          /\ Goto(call, AfterRunAsync(call, run_async_ok(rc, out, err)))
          /\ proc' = [proc EXCEPT !.returncode = rc, !.st = "exited"]
    /\ UNCHANGED <<deps, fs, launched, used>>

----------------------------------------------------------------------------
(* agent.py: file and screen readers *)

\* the emoji that open the returned strings (one stand-in character each)
CrossMark == "X"
FileMark == "F"
ScreenMark == "S"
HintMark == "i"
WarnMark == "!"

\* TESSERACT_NOT_FOUND_MSG (Windows)
TESSERACT_NOT_FOUND_MSG ==
    "Tesseract OCR is not installed or not found in PATH. "
    \o "Please install it from https://tesseract-ocr.github.io/tessdoc/Downloads.html, "
    \o "ensure it's added to your system's PATH, or set the TESSERACT_CMD environment variable "
    \o "(e.g., TESSERACT_CMD='C:\\Program Files\\Tesseract-OCR\\tesseract.exe')."

\* Path(file_path).suffix
Suffix(path) ==
    LET dots == {i \in 1..Len(path) : SubSeq(path, i, i) = "."}
        last == CHOOSE i \in dots : \A j \in dots : j <= i
    IN  IF dots = {} THEN "" ELSE SubSeq(path, last, Len(path))

\* the extensions read_any_file reads as text
TextExtensions ==
    {".txt", ".py", ".js", ".html", ".css", ".json", ".xml", ".csv", ".log"}

\* read_text_file: the text, or the message of the except clause that caught
read_text_file(file) ==
    CASE file.fault = "denied" -> "Error reading text file: " \o PermErrMsg
      [] file.fault = "undecodable" ->
           "Error reading text file with multiple encodings: "
           \o "'charmap' codec can't decode byte 0x81"
      [] OTHER -> file.text

\* read_pdf_file without its PDF_SUPPORT guard: `fitz` is an unbound name
read_pdf_file_unguarded(file, d) ==
    IF "fitz" \notin d
    THEN "Error reading PDF: " \o "name 'fitz' is not defined"
    ELSE IF file.fault # "none"
    THEN "Error reading PDF: " \o "cannot open broken document"
    ELSE file.text

\* read_pdf_file
read_pdf_file(file, d) ==
    IF "fitz" \notin d
    THEN "PDF support not available. Please install PyMuPDF: pip install PyMuPDF"
    ELSE IF file.fault # "none"
    THEN "Error reading PDF: " \o "cannot open broken document"
    ELSE file.text

\* read_word_file
read_word_file(file, d) ==
    IF "docx" \notin d
    THEN "Word document support not available. Please install python-docx: pip install python-docx"
    ELSE IF file.fault # "none"
    THEN "Error reading Word document: " \o "Package not found"
    ELSE file.text

\* read_any_file
read_any_file(file, d) ==
    LET file_extension == Lower(Suffix(file.path))
    IN  IF ~file.exists
        THEN "File not found: " \o file.path
        ELSE IF file_extension \in TextExtensions THEN read_text_file(file)
        ELSE IF file_extension = ".pdf" THEN read_pdf_file(file, d)
        ELSE IF file_extension = ".docx" THEN read_word_file(file, d)
        ELSE IF file_extension = ".doc"
        THEN "Unsupported file format: .doc. Please convert to .docx or .pdf. "
             \o "The python-docx library does not support the legacy .doc format."
        ELSE LET res == read_text_file(file)
             IN  IF Contains(res, "Error reading text file")
                 THEN "Unsupported file format: " \o file_extension
                      \o ". Supported formats: .txt, .pdf, .docx, .py, .js, .html, .css, .json, .xml, .csv, .log"
                 ELSE res

\* read_screen_once
read_screen_once(screen, d) ==
    IF "tesseract" \notin d
    THEN TESSERACT_NOT_FOUND_MSG
    ELSE IF screen.fault
    THEN "Error reading screen: " \o "XGetImage() failed"
    ELSE IF Strip(screen.text) = ""
    THEN "No text detected on screen. Make sure text is visible and not too small."
    ELSE Strip(screen.text)

\* read_specific_area
read_specific_area(screen, d) ==
    IF "tesseract" \notin d
    THEN TESSERACT_NOT_FOUND_MSG
    ELSE IF screen.fault
    THEN "Error reading screen area: " \o "XGetImage() failed"
    ELSE IF Strip(screen.text) # ""
    THEN Strip(screen.text)
    ELSE "No text detected in the specified area."

\* read_any_file: whether it gets as far as opening the file
opens_file(file, d) ==
    LET file_extension == Lower(Suffix(file.path))
    IN  /\ file.exists
        /\ CASE file_extension = ".pdf" -> "fitz" \in d
              [] file_extension = ".docx" -> "docx" \in d
              [] file_extension = ".doc" -> FALSE
              [] OTHER -> TRUE

\* read_screen_once / read_specific_area: whether the screen is grabbed
grabs_screen(d) == "tesseract" \in d

\* preview bounds of the three tools
FileBound == 1000
ScreenBound == 800
AreaBound == 500

\* read_file_tool: the string returned for `content`
read_file_tool_return(content) ==
    IF Contains(content, "Error") \/ Contains(content, "not found")
       \/ Contains(content, "not available")
    THEN CrossMark \o " " \o content
    ELSE IF Len(content) > FileBound
    THEN FileMark \o " File content (first 1000 chars):\n" \o Take(content, FileBound)
         \o "...\n" \o HintMark \o " Full content has " \o ToString(Len(content))
         \o " characters"
    ELSE FileMark \o " File content:\n" \o content

\* read_screen_tool: the string returned for `text`
read_screen_tool_return(text) ==
    IF Contains(text, "Error") \/ Contains(text, "not installed")
    THEN CrossMark \o " " \o text
    ELSE IF Len(text) > ScreenBound
    THEN ScreenMark \o " Screen text (first 800 chars):\n" \o Take(text, ScreenBound)
         \o "...\n" \o HintMark \o " Full text has " \o ToString(Len(text))
         \o " characters"
    ELSE ScreenMark \o " Screen text:\n" \o text

\* read_screen_area_tool: the string returned for `text`
read_screen_area_tool_return(text) ==
    IF Contains(text, "Error") \/ Contains(text, "not installed")
    THEN CrossMark \o " " \o text
    ELSE IF Len(text) > AreaBound
    THEN ScreenMark \o " Area text (first 500 chars):\n" \o Take(text, AreaBound)
         \o "...\n" \o HintMark \o " Full text has " \o ToString(Len(text))
         \o " characters"
    ELSE ScreenMark \o " Area text:\n" \o text

\* list_supported_formats_tool: the string returned
list_supported_formats_tool_return(d) ==
    "B Supported file formats:\n"
    \o "\nText Files: .txt, .py, .js, .html, .css, .json, .xml, .csv, .log"
    \o "\nPDF Files: .pdf"
    \o "\nWord Documents: .docx, .doc"
    \o "\nScreen Reading: OCR for any text on screen"
    \o (IF "fitz" \notin d
        THEN "\n\n" \o WarnMark \o " PDF support: Not available (install PyMuPDF)"
        ELSE "")
    \o (IF "docx" \notin d
        THEN "\n" \o WarnMark \o " Word support: Not available (install python-docx)"
        ELSE "")
    \o (IF "tesseract" \notin d
        THEN "\n" \o WarnMark \o " OCR support: Not available (install Tesseract OCR)"
        ELSE "")

----------------------------------------------------------------------------
(* Blocking operations of the host, run on a worker thread by                *)
(* asyncio.to_thread or directly on the event-loop thread                    *)

\* the character os.system rejects in a command (stands for "\0")
NUL == "<NUL>"

\* str(e) of the error of a camera or sensor library call
LibErrMsg == "library call failed"

\* a pending operation and what it is applied to
Op(name, target) == [name |-> name, target |-> target]

\* an operation returned `v` / raised an exception with message `msg`
Returned(v) == [raised |-> FALSE, val |-> v]
Raised(msg) == [raised |-> TRUE, msg |-> msg]

\* Path(target).mkdir(parents=True) without exist_ok=True
mkdir_exist_not_ok(f, target) ==
    IF KindOf(f, target) = "absent"
    THEN {Returned("created"), Raised(PermErrMsg)}
    ELSE {Raised(ExistsErrMsg)}

\* Path(target).mkdir(parents=True, exist_ok=True) on filesystem `f`
mkdir(f, target) ==
    IF KindOf(f, target) = "absent"
    THEN {Returned("created"), Raised(PermErrMsg)}
    ELSE IF KindOf(f, target) = "dir"
    THEN {Returned("existed")}
    ELSE {Raised(ExistsErrMsg)}

\* the ways operation `o` of call `c` can end on a host with filesystem `f`
\* and dependencies `d`
Outcomes(c, f, d) ==
    LET o == c.op
    IN  CASE o.name = "mkdir" -> mkdir(f, o.target)
          [] o.name = "startfile" -> {Returned("started"), Raised(OSErrMsg)}
          [] o.name = "system" ->
               IF Contains(o.target, NUL)
               THEN {Raised("embedded null character")}
               ELSE {Returned("status"), Raised("can't start new thread")}
          [] o.name = "native" -> {Returned(0), Returned(1), Raised(OSErrMsg)}
          [] o.name = "iterdir" ->
               {Returned(<<>>), Returned(<<"a.txt", "b">>), Raised(PermErrMsg)}
          [] o.name = "rglob" ->
               {Returned(<<>>),
                Returned(<<o.target \o "/x/a.pdf", o.target \o "/b.pdf">>),
                Raised(PermErrMsg)}
          [] o.name = "glob" ->
               {Returned(<<>>),
                Returned(<<o.target \o "/clip" \o SubSeq(c.ext, 2, Len(c.ext))>>),
                Raised(PermErrMsg)}
          [] o.name = "webbrowser" -> {Returned("opened"), 
                 Raised("could not locate runnable browser")}
          [] o.name = "sensors_battery" ->
               \* psutil.sensors_battery(): None, or the battery's state
               {Returned([present |-> FALSE]),
                Returned([present |-> TRUE, percent |-> 80,
                          power_plugged |-> TRUE]),
                Raised(LibErrMsg)}
          [] o.name = "capture" ->
               {Returned([ok |-> FALSE, error |-> "Camera not available"]),
                Returned([ok |-> FALSE, error |-> "Failed to read from camera"]),
                Returned([ok |-> TRUE, path |-> o.target]),
                Raised(LibErrMsg)}
          [] o.name = "read_any_file" ->
               IF c.file.fault = "race"
               THEN {Raised(OSErrMsg)}
               ELSE {Returned(read_any_file(c.file, d))}
          [] o.name = "read_screen_once" -> {Returned(read_screen_once(c.screen, d))}
          [] o.name = "read_specific_area" ->
               {Returned(read_specific_area(c.screen, d))}

\* the filesystem after operation `o` ended with `out`
FsAfter(o, out, f) ==
    IF o.name = "mkdir" /\ ~out.raised /\ Resolve(o.target) \in Paths
    THEN [f EXCEPT ![Resolve(o.target)] = "dir"]
    ELSE f

\* the launches issued after operation `o` ended with `out`
LaunchedAfter(o, out, l) ==
    IF o.name \in {"startfile", "system", "webbrowser"} /\ ~out.raised
    THEN l \cup {o.target}
    ELSE l

\* what the call `c` has read or captured from once its operation has run
UsedAfter(c, d, u) ==
    CASE c.op.name = "sensors_battery" -> u \cup {"battery"}
      [] c.op.name = "capture" -> u \cup {"camera"}
      [] c.op.name = "read_any_file" ->
           IF opens_file(c.file, d) THEN u \cup {"file"} ELSE u
      [] c.op.name \in {"read_screen_once", "read_specific_area"} ->
           IF grabs_screen(d) THEN u \cup {"screen"} ELSE u
      [] OTHER -> u

\* the handler waits for `asyncio.to_thread(...)` / runs the call itself
WaitThread(c) == Wait("thread", "worker", c)
WaitLoop(c) == Wait("loop", "loop", c)

----------------------------------------------------------------------------
(* sleep_system, lock_screen *)

sleep_system_start ==
    WaitLoop([h |-> "sleep_system", at |-> "native",
              op |-> Op("native", "PowrProf.SetSuspendState")])

sleep_system_resume(c, out) ==
    IF c.at = "native"
    THEN IF out.raised
         THEN WaitThread([c EXCEPT !.at = "fallback",
                                   !.op = Op("system",
                                       "rundll32.exe powrprof.dll,SetSuspendState 0,1,0")])
         ELSE Ret([ok |-> TRUE, action |-> "sleep", rc |-> (out.val # 0)])
    ELSE IF out.raised
         THEN Ret(Failure(out.msg))
         ELSE Ret([ok |-> TRUE, action |-> "sleep", fallback |-> TRUE])

lock_screen_start ==
    WaitLoop([h |-> "lock_screen", at |-> "native",
              op |-> Op("native", "user32.LockWorkStation")])

lock_screen_resume(c, out) ==
    IF out.raised
    THEN Ret(Failure(out.msg))
    ELSE Ret([ok |-> TRUE, action |-> "lock_screen"])

----------------------------------------------------------------------------
(* create_folder, list_folder_items, open_file, open_pdf_in_folder *)

create_folder_start(path) ==
    LET p == IF Truthy(path) THEN path ELSE DefaultNewFolder
    IN  WaitThread([h |-> "create_folder", path |-> path, p |-> p,
                    at |-> "mkdir", op |-> Op("mkdir", p)])

create_folder_resume(c, out) ==
    IF out.raised
    THEN Ret(Failure(out.msg))
    ELSE Ret([ok |-> TRUE, path |-> Resolve(c.p)])

list_folder_items_start(path, f) ==
    LET p == IF Truthy(path) THEN path ELSE Cwd
    IN  IF ~Exists(f, p) \/ ~IsDir(f, p)
        THEN Ret(Failure("Invalid directory"))
        ELSE WaitThread([h |-> "list_folder_items", path |-> path, p |-> p,
                         at |-> "iterdir", op |-> Op("iterdir", p)])

list_folder_items_resume(c, out) ==
    IF out.raised
    THEN Ret(Failure(out.msg))
    ELSE Ret([ok |-> TRUE, path |-> c.p, items |-> out.val])

\* open_file without its p.exists() test
open_file_start_unchecked(path, f) ==
    IF ~Truthy(path)
    THEN WaitThread([h |-> "open_file", path |-> path, at |-> "default",
                     op |-> Op("startfile", DocumentsDir)])
    ELSE WaitThread([h |-> "open_file", path |-> path, at |-> "open",
                     op |-> Op("startfile", path)])

open_file_start(path, f) ==
    IF ~Truthy(path)
    THEN WaitThread([h |-> "open_file", path |-> path, at |-> "default",
                     op |-> Op("startfile", DocumentsDir)])
    ELSE IF ~Exists(f, path)
    THEN Ret(Failure("Path not found: " \o path))
    ELSE WaitThread([h |-> "open_file", path |-> path, at |-> "open",
                     op |-> Op("startfile", path)])

open_file_resume(c, out) ==
    IF out.raised
    THEN Ret(Failure(out.msg))
    ELSE Ret([ok |-> TRUE, opened |-> c.op.target])

open_pdf_in_folder_start(folder, f) ==
    LET p == PyOr(folder, DocumentsDir)
    IN  IF ~Exists(f, p) \/ ~IsDir(f, p)
        THEN Ret(Failure("Invalid folder"))
        ELSE WaitLoop([h |-> "open_pdf_in_folder", folder |-> folder,
                       at |-> "rglob", op |-> Op("rglob", p)])

open_pdf_in_folder_resume(c, out) ==
    IF out.raised
    THEN Ret(Failure(out.msg))
    ELSE IF c.at = "rglob"
    THEN IF out.val = <<>>
         THEN Ret(Failure("No PDF files found"))
         ELSE WaitThread([c EXCEPT !.at = "open",
                                   !.op = Op("startfile", out.val[1])])
    ELSE Ret([ok |-> TRUE, opened |-> c.op.target])

----------------------------------------------------------------------------
(* run_application_or_media *)

\* shutil.which(name): the executable found on PATH, or None
Which(name) == IF name = "notepad" THEN "C:/Windows/notepad.exe" ELSE None

\* for ext in ("*.mp4", "*.mp3", "*.mkv")
MediaExts == <<"*.mp4", "*.mp3", "*.mkv">>

\* the search of the media folder, entered at pattern number `i`
media_search(c, i) ==
    WaitLoop([c EXCEPT !.at = "glob", !.i = i, !.ext = MediaExts[i],
                       !.op = Op("glob", PyOr(c.folder, VideosDir))])

\* run_application_or_media without its path.exists() step
run_application_or_media_start_no_path_step(app, folder, f) ==
    LET c == [h |-> "run_application_or_media", app |-> app, folder |-> folder,
              at |-> "start", i |-> 0, ext |-> "", op |-> Op("none", "")]
    IN  IF Truthy(app) /\ Which(app) # None
        THEN Wait("spawn_app", "none",
                  [c EXCEPT !.at = "exec", !.op = Op("exec", Which(app))])
        ELSE media_search(c, 1)

run_application_or_media_start(app, folder, f) ==
    LET c == [h |-> "run_application_or_media", app |-> app, folder |-> folder,
              at |-> "start", i |-> 0, ext |-> "", op |-> Op("none", "")]
    IN  IF Truthy(app) /\ Which(app) # None
        THEN Wait("spawn_app", "none",
                  [c EXCEPT !.at = "exec", !.op = Op("exec", Which(app))])
        ELSE IF Truthy(app) /\ Exists(f, app)
        THEN WaitThread([c EXCEPT !.at = "open", !.op = Op("startfile", app)])
        ELSE media_search(c, 1)

run_application_or_media_resume(c, out) ==
    IF out.raised
    THEN Ret(Failure(out.msg))
    ELSE IF c.at = "exec_fallback"
    THEN Ret([ok |-> TRUE, ran |-> c.op.target])
    ELSE IF c.at = "open"
    THEN Ret([ok |-> TRUE, opened |-> c.op.target])
    ELSE IF out.val # <<>>
    THEN WaitThread([c EXCEPT !.at = "open", !.op = Op("startfile", out.val[1])])
    ELSE IF c.i < Len(MediaExts)
    THEN media_search(c, c.i + 1)
    ELSE Ret(Failure("No file or app found"))

----------------------------------------------------------------------------
(* get_battery_info, open_quick_settings, open_system_info *)

get_battery_info_start(d) ==
    IF "psutil" \notin d
    THEN Ret(Failure("psutil not installed"))
    ELSE WaitLoop([h |-> "get_battery_info", at |-> "sensors",
                   op |-> Op("sensors_battery", "")])

get_battery_info_resume(c, out) ==
    IF out.raised
    THEN Ret(Failure(out.msg))
    ELSE IF ~out.val.present
    THEN Ret(Failure("No battery detected"))
    ELSE Ret([ok |-> TRUE, percent |-> out.val.percent,
              plugged_in |-> out.val.power_plugged])

open_quick_settings_start(section) ==
    LET uri == "ms-settings:" \o PyOr(section, "")
    IN  WaitThread([h |-> "open_quick_settings", section |-> section,
                    uri |-> uri, at |-> "system",
                    op |-> Op("system", "start " \o uri)])

open_quick_settings_resume(c, out) ==
    IF out.raised
    THEN Exc(out.msg)
    ELSE Ret([ok |-> TRUE, opened |-> c.uri])

open_system_info_start ==
    WaitThread([h |-> "open_system_info", at |-> "system",
                op |-> Op("system", "msinfo32")])

open_system_info_resume(c, out) ==
    IF out.raised
    THEN Exc(out.msg)
    ELSE Ret([ok |-> TRUE, action |-> "opened_system_info"])

----------------------------------------------------------------------------
(* open_common_app *)

RECURSIVE Replace(_, _, _)
\* s.replace(a, b) for a one-character `a`
Replace(s, a, b) ==
    IF Len(s) = 0 THEN ""
    ELSE (IF SubSeq(s, 1, 1) = a THEN b ELSE SubSeq(s, 1, 1))
         \o Replace(SubSeq(s, 2, Len(s)), a, b)

\* app = app.lower().strip()
normalize_app(app) == Strip(Lower(app))

\* the names the if/elif chain of open_common_app accepts
SupportedApps ==
    {"chrome", "youtube", "notepad", "vscode", "vs code", "cursor",
     "whatsapp", "google", "search"}

\* search_url
search_url(query) ==
    "https://www.google.com/search?q=" \o Replace(query, " ", "+")

\* the final else branch with a message that leaves the name out
unsupported_app_error_unnamed(app) == "Unsupported app"

\* the error of the final else branch
unsupported_app_error(app) == "Unsupported app: " \o app

open_common_app_start(app_arg, query) ==
    LET app == normalize_app(app_arg)
        c(opname, target, label) ==
            [h |-> "open_common_app", app_arg |-> app_arg, app |-> app,
             query |-> query, at |-> "launch", op |-> Op(opname, target),
             label |-> label]
    IN  CASE app = "chrome" ->
               WaitThread(c("startfile", "chrome", "Google Chrome"))
          [] app = "youtube" ->
               WaitLoop(c("webbrowser", "https://www.youtube.com", "YouTube"))
          [] app = "notepad" ->
               WaitThread(c("startfile", "notepad.exe", "Notepad"))
          [] app \in {"vscode", "vs code"} ->
               WaitThread(c("startfile", "code", "Visual Studio Code"))
          [] app = "cursor" ->
               WaitThread(c("startfile", "cursor", "Cursor Editor"))
          [] app = "whatsapp" ->
               WaitLoop(c("webbrowser", "https://web.whatsapp.com/", "WhatsApp Web"))
          [] app \in {"google", "search"} ->
               IF ~Truthy(query)
               THEN WaitLoop(c("webbrowser", "https://www.google.com", "Google Home"))
               ELSE WaitLoop(c("webbrowser", search_url(query), search_url(query)))
          [] OTHER -> Ret(Failure(unsupported_app_error(app)))

open_common_app_resume(c, out) ==
    IF out.raised
    THEN Ret(Failure(out.msg))
    ELSE Ret([ok |-> TRUE, opened |-> c.label])

----------------------------------------------------------------------------
(* capture_photo, send_whatsapp_message *)

capture_photo_start(filename, d) ==
    IF "cv2" \notin d
    THEN Ret(Failure("opencv (cv2) not installed"))
    ELSE WaitLoop([h |-> "capture_photo", filename |-> filename,
                   at |-> "mkdir", op |-> Op("mkdir", PhotoDir)])

capture_photo_resume(c, out) ==
    IF out.raised
    THEN Ret(Failure(out.msg))
    ELSE IF c.at = "mkdir"
    THEN \* f"photo_{int(asyncio.get_event_loop().time() * 1000)}.jpg"
         LET name == IF Truthy(c.filename) THEN c.filename ELSE "photo_1000.jpg"
         IN  WaitThread([c EXCEPT !.at = "capture",
                                  !.op = Op("capture", PhotoDir \o "/" \o name)])
    ELSE Ret(out.val)

\* whatsapp_url
whatsapp_url(phone_number, message) ==
    "https://api.whatsapp.com/send?phone=" \o phone_number
        \o "&text=" \o Replace(message, " ", "%20")

send_whatsapp_message_start(phone_number, message) ==
    IF ~Truthy(phone_number) \/ ~Truthy(message)
    THEN Ret(Failure("Phone number and message required"))
    ELSE WaitLoop([h |-> "send_whatsapp_message", phone_number |-> phone_number,
                   message |-> message, at |-> "open",
                   op |-> Op("webbrowser", whatsapp_url(phone_number, message))])

send_whatsapp_message_resume(c, out) ==
    IF out.raised
    THEN Ret(Failure(out.msg))
    ELSE Ret([ok |-> TRUE, sent_to |-> c.phone_number, message |-> c.message])

----------------------------------------------------------------------------
(* read_file_tool, read_screen_tool, read_screen_area_tool,                  *)
(* list_supported_formats_tool                                               *)

read_file_tool_start(file) ==
    WaitLoop([h |-> "read_file_tool", file |-> file, at |-> "read",
              op |-> Op("read_any_file", file.path)])

read_file_tool_resume(c, out) ==
    IF out.raised
    THEN Ret(CrossMark \o " Error reading file: " \o out.msg)
    ELSE Ret(read_file_tool_return(out.val))

read_screen_tool_start(screen) ==
    WaitLoop([h |-> "read_screen_tool", screen |-> screen, at |-> "read",
              op |-> Op("read_screen_once", "")])

read_screen_tool_resume(c, out) ==
    IF out.raised
    THEN Ret(CrossMark \o " Error reading screen: " \o out.msg)
    ELSE Ret(read_screen_tool_return(out.val))

read_screen_area_tool_start(screen, area) ==
    WaitLoop([h |-> "read_screen_area_tool", screen |-> screen, area |-> area,
              at |-> "read", op |-> Op("read_specific_area", "")])

read_screen_area_tool_resume(c, out) ==
    IF out.raised
    THEN Ret(CrossMark \o " Error reading screen area: " \o out.msg)
    ELSE Ret(read_screen_area_tool_return(out.val))

----------------------------------------------------------------------------
(* Inputs *)

\* how far past a preview bound the texts of the model reach
MaxExtra == 2

\* texts whose length lies around the bound `b`
TextsAround(b) ==
    {Rep("a", b)} \cup {Rep("a", b + k) : k \in 1..MaxExtra}
    \cup {"Error" \o Rep("a", b + 1)}

\* extracted texts of the files of the host
FileTexts ==
    {"", "hello world", "Error: disk full", "item not found"}
    \cup TextsAround(FileBound)

\* a file of the host as read_any_file meets it
File(path, exists, text, fault) ==
    [path |-> path, exists |-> exists, text |-> text, fault |-> fault]

\* the file_path arguments of read_file_tool and what the host holds there
FileInputs ==
    {File(p, FALSE, "", "none") :
        p \in {"C:/docs/notes.txt", "C:/docs/report.PDF", "C:/docs/letter.docx"}}
    \cup {File(p, TRUE, t, "none") :
            p \in {"C:/docs/notes.txt", "C:/docs/report.PDF"}, t \in FileTexts}
    \cup {File(p, TRUE, t, "none") :
            p \in {"C:/docs/letter.docx", "C:/docs/old.doc", "C:/docs/data.bin",
                   "C:/docs/README"},
            t \in {"", "hello world"}}
    \cup {File("C:/docs/notes.txt", TRUE, "", ft) :
            ft \in {"denied", "undecodable", "race"}}
    \cup {File(p, TRUE, "", "denied") :
            p \in {"C:/docs/report.PDF", "C:/docs/letter.docx"}}
    \cup {File("C:/docs/data.bin", TRUE, "", "undecodable")}

\* what the screen shows (the text OCR recognises) and whether the grab fails
Screen(text, fault) == [text |-> text, fault |-> fault]

ScreenInputs(b) ==
    {Screen("", TRUE)}
    \cup {Screen(t, FALSE) :
            t \in {"", " \n", " hello \n", "Error 404"} \cup TextsAround(b)
                  \cup {" " \o Rep("a", b) \o "\n"}}

PathInputs == {None, "d1", "C:/nowhere"}

CreateFolderInputs == {None, "", "d1"}

AppOrPathInputs == {None, "notepad", "d1", "nothing"}

SectionInputs == {None, "display", "wifi" \o NUL}

CommonAppInputs ==
    ({"chrome", "Chrome", " YouTube ", "notepad", "vs code", "vscode", "cursor",
      "whatsapp", "unsupported_app_xyz", " Spotify", "XYZ "} \X {None})
    \cup ({"google", "Search "} \X {None, "", "a b&c"})

----------------------------------------------------------------------------
(* The handlers are called *)

\* the handler `c.h` is entered with the arguments in `c` and runs to its
\* first await, blocking call or return: step `n`
Call(c, n) == Enter /\ Goto(c, n) /\ UNCHANGED <<deps, fs>>

sleep_system == Call([h |-> "sleep_system"], sleep_system_start)

lock_screen == Call([h |-> "lock_screen"], lock_screen_start)

create_folder ==
    \E path \in CreateFolderInputs :
        Call([h |-> "create_folder", path |-> path], create_folder_start(path))

list_folder_items ==
    \E path \in PathInputs :
        Call([h |-> "list_folder_items", path |-> path],
             list_folder_items_start(path, fs))

open_file ==
    \E path \in PathInputs :
        Call([h |-> "open_file", path |-> path], open_file_start(path, fs))

open_pdf_in_folder ==
    \E folder \in PathInputs :
        Call([h |-> "open_pdf_in_folder", folder |-> folder],
             open_pdf_in_folder_start(folder, fs))

run_application_or_media ==
    \E app \in AppOrPathInputs, folder \in {None, "C:/media"} :
        Call([h |-> "run_application_or_media", app |-> app, folder |-> folder],
             run_application_or_media_start(app, folder, fs))

get_battery_info == Call([h |-> "get_battery_info"], get_battery_info_start(deps))

open_quick_settings ==
    \E section \in SectionInputs :
        Call([h |-> "open_quick_settings", section |-> section],
             open_quick_settings_start(section))

open_system_info == Call([h |-> "open_system_info"], open_system_info_start)

open_common_app ==
    \E in \in CommonAppInputs :
        Call([h |-> "open_common_app", app_arg |-> in[1],
              app |-> normalize_app(in[1]), query |-> in[2]],
             open_common_app_start(in[1], in[2]))

capture_photo ==
    \E filename \in {None, "me.jpg"} :
        Call([h |-> "capture_photo", filename |-> filename],
             capture_photo_start(filename, deps))

send_whatsapp_message ==
    \E phone_number \in {"", "918765432100"},
       message \in {"", "Hello there!", "a&b=c d"} :
        Call([h |-> "send_whatsapp_message", phone_number |-> phone_number,
              message |-> message],
             send_whatsapp_message_start(phone_number, message))

read_file_tool ==
    \E file \in FileInputs :
        Call([h |-> "read_file_tool", file |-> file], read_file_tool_start(file))

read_screen_tool ==
    \E screen \in ScreenInputs(ScreenBound) :
        Call([h |-> "read_screen_tool", screen |-> screen],
             read_screen_tool_start(screen))

read_screen_area_tool ==
    \E screen \in ScreenInputs(AreaBound),
       area \in {[x |-> 0, y |-> 0, width |-> 100, height |-> 40]} :
        Call([h |-> "read_screen_area_tool", screen |-> screen, area |-> area],
             read_screen_area_tool_start(screen, area))

list_supported_formats_tool ==
    Call([h |-> "list_supported_formats_tool"],
         Ret(list_supported_formats_tool_return(deps)))

----------------------------------------------------------------------------
(* The handlers resume when their pending operation ends *)

\* the handler continues after its operation ended with `out`
Resume(c, out) ==
    CASE c.h = "sleep_system" -> sleep_system_resume(c, out)
      [] c.h = "lock_screen" -> lock_screen_resume(c, out)
      [] c.h = "create_folder" -> create_folder_resume(c, out)
      [] c.h = "list_folder_items" -> list_folder_items_resume(c, out)
      [] c.h = "open_file" -> open_file_resume(c, out)
      [] c.h = "open_pdf_in_folder" -> open_pdf_in_folder_resume(c, out)
      [] c.h = "run_application_or_media" -> run_application_or_media_resume(c, out)
      [] c.h = "get_battery_info" -> get_battery_info_resume(c, out)
      [] c.h = "open_quick_settings" -> open_quick_settings_resume(c, out)
      [] c.h = "open_system_info" -> open_system_info_resume(c, out)
      [] c.h = "open_common_app" -> open_common_app_resume(c, out)
      [] c.h = "capture_photo" -> capture_photo_resume(c, out)
      [] c.h = "send_whatsapp_message" -> send_whatsapp_message_resume(c, out)
      [] c.h = "read_file_tool" -> read_file_tool_resume(c, out)
      [] c.h = "read_screen_tool" -> read_screen_tool_resume(c, out)
      [] c.h = "read_screen_area_tool" -> read_screen_area_tool_resume(c, out)

\* the pending operation ends with `out`: the host changes, the handler resumes
OperationEnds(out) ==
    /\ fs' = FsAfter(call.op, out, fs)
    /\ launched' = LaunchedAfter(call.op, out, launched)
    /\ used' = UsedAfter(call, deps, used)
    /\ Goto(call, Resume(call, out))
    /\ UNCHANGED <<deps, proc>>

\* `await asyncio.to_thread(...)`: the worker thread's call returned
thread_returns ==
    /\ pc = "thread"
    /\ \E out \in Outcomes(call, fs, deps) : ~out.raised /\ OperationEnds(out)

\* `await asyncio.to_thread(...)`: the worker thread's call raised
thread_raises ==
    /\ pc = "thread"
    /\ \E out \in Outcomes(call, fs, deps) : out.raised /\ OperationEnds(out)

\* a call made on the event-loop thread returned
loop_call_returns ==
    /\ pc = "loop"
    /\ \E out \in Outcomes(call, fs, deps) : ~out.raised /\ OperationEnds(out)

\* a call made on the event-loop thread raised
loop_call_raises ==
    /\ pc = "loop"
    /\ \E out \in Outcomes(call, fs, deps) : out.raised /\ OperationEnds(out)

\* run_application_or_media: create_subprocess_exec(exe) started the program;
\* the handler returns without waiting for it
app_spawned ==
    /\ pc = "spawn_app"
    /\ \E hangs \in BOOLEAN :
          proc' = [returncode |-> None, st |-> "running", hangs |-> hangs,
                   awaited |-> FALSE]
    /\ launched' = launched \cup {call.op.target}
    /\ Goto(call, Ret([ok |-> TRUE, ran |-> call.op.target]))
    /\ UNCHANGED <<deps, fs, used>>

\* run_application_or_media: create_subprocess_exec(exe) raised; os.startfile
\* is tried on a worker thread
app_spawn_failed ==
    /\ pc = "spawn_app"
    /\ Goto(call, WaitThread([call EXCEPT !.at = "exec_fallback",
                                    !.op = Op("startfile", call.op.target)]))
    /\ UNCHANGED <<deps, fs, proc, launched, used>>

----------------------------------------------------------------------------
(* The event loop around the handler *)

\* the task running the handler is cancelled while suspended at an await:
\* CancelledError is a BaseException, no `except Exception` catches it, and
\* nothing terminates the subprocess or the worker thread
task_cancelled ==
    /\ pc \in Awaiting
    /\ pc' = "cancelled"
    /\ result' = NoResult
    /\ exc' = "CancelledError"
    /\ otherRan' = FALSE
    /\ UNCHANGED <<deps, fs, call, proc, launched, used, blocking>>

\* the worker thread of a cancelled call still finishes its operation
abandoned_thread_finishes ==
    /\ pc = "cancelled"
    /\ blocking = "worker"
    /\ \E out \in Outcomes(call, fs, deps) :
          /\ fs' = FsAfter(call.op, out, fs)
          /\ launched' = LaunchedAfter(call.op, out, launched)
    /\ used' = UsedAfter(call, deps, used)
    /\ blocking' = "none"
    /\ UNCHANGED <<deps, pc, call, result, exc, proc, otherRan>>

\* a subprocess nobody waits for any more exits on its own
orphan_exits ==
    /\ pc \in Free
    /\ proc.st = "running"
    /\ ~proc.hangs
    /\ proc' = [proc EXCEPT !.st = "exited"]
    /\ UNCHANGED <<deps, fs, pc, call, result, exc, launched, used, blocking,
                   otherRan>>

\* another task of the event loop gets a turn while the call is in flight:
\* possible only while the loop thread is not inside a blocking call
other_task_runs ==
    /\ pc \notin Free
    /\ blocking # "loop"
    /\ ~otherRan
    /\ otherRan' = TRUE
    /\ UNCHANGED <<deps, fs, pc, call, result, exc, proc, launched, used, blocking>>

----------------------------------------------------------------------------

Init ==
    /\ deps \in HostDeps
    /\ fs \in [Paths -> {"absent", "dir", "file"}]
    /\ pc = "idle"
    /\ call = NoCall
    /\ result = NoResult
    /\ exc = None
    /\ proc = NoProc
    /\ launched = {}
    /\ used = {}
    /\ blocking = "none"
    /\ otherRan = FALSE

Next ==
    \/ shutdown_system
    \/ restart_system
    \/ cancel_shutdown
    \/ wifi_status
    \/ bluetooth_status
    \/ sleep_system
    \/ lock_screen
    \/ create_folder
    \/ list_folder_items
    \/ open_file
    \/ open_pdf_in_folder
    \/ run_application_or_media
    \/ get_battery_info
    \/ open_quick_settings
    \/ open_system_info
    \/ open_common_app
    \/ capture_photo
    \/ send_whatsapp_message
    \/ read_file_tool
    \/ read_screen_tool
    \/ read_screen_area_tool
    \/ list_supported_formats_tool
    \/ run_async_spawned
    \/ run_async_spawn_failed
    \/ run_async_communicated
    \/ thread_returns
    \/ thread_raises
    \/ loop_call_returns
    \/ loop_call_raises
    \/ app_spawned
    \/ app_spawn_failed
    \/ task_cancelled
    \/ abandoned_thread_finishes
    \/ orphan_exits
    \/ other_task_runs

Spec == Init /\ [][Next]_vars

----------------------------------------------------------------------------
(* brain.py: entrypoint.  The frame of the coroutine is `call`: the         *)
(* exception in flight (raised), Reply_prompts, the local `session`, the    *)
(* coroutines it has awaited so far (trace) and the exceptions thrown into  *)
(* it at its awaits (thrown).  pc names the coroutine it is suspended on.   *)

\* `await <name>(...)`: the coroutine is called and entrypoint suspends on it
entrypoint_await(c, name) ==
    Wait(name, "none", [c EXCEPT !.trace = Append(@, name)])

\* entrypoint is left: the exception in flight propagates, or None is returned
entrypoint_exit(c) == IF c.raised = None THEN Ret(None) ELSE Exc(c.raised)

\* the finally block without its `if session:` guard
entrypoint_finally_unguarded(c) == entrypoint_await(c, "session.stop")

\* the finally block: `if session:` guards the await of session.stop()
entrypoint_finally(c) ==
    IF c.session # None
    THEN entrypoint_await(c, "session.stop")
    ELSE entrypoint_exit(c)

\* the except clauses of the try block for an exception `e` raised in it:
\* CancelledError is re-raised, an Exception is printed and dropped
entrypoint_except(c, e) ==
    entrypoint_finally(
        [c EXCEPT !.raised = IF e = "CancelledError" THEN e ELSE None])

\* the code that runs when the awaited coroutine `at` returns
entrypoint_resume(c, at) ==
    CASE at = "get_formatted_datetime" ->
           entrypoint_await(c, "get_current_city")
      [] at = "get_current_city" ->
           entrypoint_await([c EXCEPT !.session = "AgentSession"],
                            "session.start")
      [] at = "session.start" ->
           IF Truthy(c.prompts)
           THEN entrypoint_await(c, "session.generate_reply")
           ELSE entrypoint_await(c, "conv_ctx.run")
      [] at = "session.generate_reply" -> entrypoint_await(c, "conv_ctx.run")
      [] at = "conv_ctx.run" -> entrypoint_await(c, "agents.wait_for_interrupt")
      [] at = "agents.wait_for_interrupt" -> entrypoint_finally(c)
      [] at = "session.stop" -> entrypoint_exit(c)

\* the worker runs entrypoint for a job
entrypoint ==
    /\ Enter
    /\ \E Reply_prompts \in {"", "Introduce yourself."} :
          Goto(call, entrypoint_await(
                   [raised |-> None, h |-> "entrypoint",
                    prompts |-> Reply_prompts, session |-> None,
                    trace |-> <<>>, thrown |-> <<>>],
                   "get_formatted_datetime"))
    /\ UNCHANGED <<deps, fs>>

\* the awaited coroutine returns
await_returns ==
    /\ call.h = "entrypoint"
    /\ pc \notin Free
    /\ Goto(call, entrypoint_resume(call, pc))
    /\ UNCHANGED <<deps, fs, proc, launched, used>>

\* the awaited coroutine raises an Exception: one awaited in the try block is
\* handled by `except Exception as exc`, one of session.stop() by
\* `except Exception: pass`
await_raises ==
    /\ call.h = "entrypoint"
    /\ pc \notin Free
    /\ LET c == [call EXCEPT !.thrown = Append(@, pc \o " failed")]
       IN  Goto(c, IF pc = "session.stop"
                   THEN entrypoint_exit(c)
                   ELSE entrypoint_except(c, pc \o " failed"))
    /\ UNCHANGED <<deps, fs, proc, launched, used>>

\* the task is cancelled while suspended: CancelledError is raised at the
\* await; inside the finally block no clause catches it
await_cancelled ==
    /\ call.h = "entrypoint"
    /\ pc \notin Free
    /\ LET c == [call EXCEPT !.thrown = Append(@, "CancelledError")]
       IN  Goto(c, IF pc = "session.stop"
                   THEN Exc("CancelledError")
                   ELSE entrypoint_except(c, "CancelledError"))
    /\ UNCHANGED <<deps, fs, proc, launched, used>>

\* a statement that runs after the awaited coroutine returned raises: the
\* AgentSession constructor (session is still None) or session.history after
\* get_current_city, the MemoryExtractor constructor before conv_ctx.run
statement_raises ==
    /\ call.h = "entrypoint"
    /\ \E stmt \in {"AgentSession", "session.history", "MemoryExtractor"} :
          /\ IF stmt = "MemoryExtractor"
             THEN \/ pc = "session.start" /\ ~Truthy(call.prompts)
                  \/ pc = "session.generate_reply"
             ELSE pc = "get_current_city"
          /\ LET made == IF stmt = "AgentSession" THEN None ELSE "AgentSession"
                 c == [call EXCEPT !.session = made,
                                   !.thrown = Append(@, stmt \o " failed")]
             IN  Goto(c, entrypoint_except(c, stmt \o " failed"))
    /\ UNCHANGED <<deps, fs, proc, launched, used>>

BrainInit ==
    /\ deps = Deps
    /\ fs = [p \in Paths |-> "absent"]
    /\ pc = "idle"
    /\ call = NoCall
    /\ result = NoResult
    /\ exc = None
    /\ proc = NoProc
    /\ launched = {}
    /\ used = {}
    /\ blocking = "none"
    /\ otherRan = FALSE

BrainNext ==
    \/ entrypoint
    \/ await_returns
    \/ await_raises
    \/ await_cancelled
    \/ statement_raises

BrainSpec == BrainInit /\ [][BrainNext]_vars

----------------------------------------------------------------------------
(* Properties *)

\* the handlers of Jarvis_window_CTRL: they return the envelope dict
CtrlHandlers ==
    AdapterHandlers \cup
    {"sleep_system", "lock_screen", "create_folder", "list_folder_items",
     "open_file", "open_pdf_in_folder", "run_application_or_media",
     "get_battery_info", "open_quick_settings", "open_system_info",
     "open_common_app", "capture_photo", "send_whatsapp_message"}

\* s.endswith(pat)
EndsWith(s, pat) ==
    Len(s) >= Len(pat) /\ SubSeq(s, Len(s) - Len(pat) + 1, Len(s)) = pat

\* C1: no exception ever leaves a handler: whatever the input and however an
\* OS or library call raises, the call ends by returning a result.
C1_NoExceptionEscapes == pc # "raised"

\* C2: when the subprocess of _run_async could not be started, the handler
\* that awaited it returns ok = false with the OS error message as its error.
C2_SpawnFailureIsFailure ==
    (pc = "done" /\ call.h \in AdapterHandlers /\ proc.st = "none") =>
        /\ result.ok = FALSE
        /\ Get(result, "error") = OSErrMsg

\* the operations C3 lists as blocking: native ctypes call, filesystem scan,
\* screen grab + OCR, file parsing, browser launch
C3_BlockingOps ==
    {"native", "rglob", "glob", "read_screen_once", "read_specific_area",
     "read_any_file", "webbrowser"}

\* C3: no blocking operation runs on the event-loop thread, and while a call
\* is in flight another task of the loop can take a turn (or has taken it).
C3_LoopNeverBlocked ==
    /\ blocking = "loop" => call.op.name \notin C3_BlockingOps
    /\ (pc \notin Free /\ ~otherRan
            /\ (pc = "loop" => call.op.name \in C3_BlockingOps))
          => ENABLED other_task_runs

\* C4: an adapter call never waits forever on its subprocess: whenever
\* _run_async is suspended at communicate(), the adapter itself can still
\* complete the call (the command exits, or a timeout ends the wait).
C4_AdapterNeverWaitsForever ==
    pc = "communicate" => ENABLED run_async_communicated

\* C5: once the task running a handler has been cancelled, no subprocess the
\* handler spawned is still running.
C5_NoOrphanAfterCancel == pc = "cancelled" => proc.st # "running"

\* the optional dependency the call `c` needs (None: none)
C6_Needs(c) ==
    CASE c.h = "get_battery_info" -> "psutil"
      [] c.h = "capture_photo" -> "cv2"
      [] c.h \in {"read_screen_tool", "read_screen_area_tool"} -> "tesseract"
      [] c.h = "read_file_tool" /\ Lower(Suffix(c.file.path)) = ".pdf" -> "fitz"
      [] c.h = "read_file_tool" /\ Lower(Suffix(c.file.path)) = ".docx" -> "docx"
      [] OTHER -> None

\* the name by which a message refers to dependency `dep`
C6_NameOf(dep) ==
    CASE dep = "psutil" -> "psutil"
      [] dep = "cv2" -> "cv2"
      [] dep = "tesseract" -> "Tesseract"
      [] dep = "fitz" -> "PyMuPDF"
      [] dep = "docx" -> "python-docx"

\* the call in flight needs a dependency the host lacks
C6_DependencyAbsent == C6_Needs(call) # None /\ C6_Needs(call) \notin deps

\* such a call never raises, reads or captures nothing, and what it returns is
\* marked as a failure and names the dependency
C6_FailsNamingDependency ==
    /\ pc # "raised"
    /\ used = {}
    /\ pc = "done" =>
          IF call.h \in CtrlHandlers
          THEN /\ result.ok = FALSE
               /\ Contains(result.error, C6_NameOf(C6_Needs(call)))
          ELSE /\ StartsWith(result, CrossMark)
               /\ Contains(result, C6_NameOf(C6_Needs(call)))

\* C6 as stated: every call of a handler whose optional dependency is absent
\* returns a failure-marked result naming the dependency, performs no capture
\* or read, and never raises.
C6_AsStated == C6_DependencyAbsent => C6_FailsNamingDependency

\* C6, amended: the same, for read_file_tool only when the .pdf / .docx file
\* exists (a path that does not exist is reported as "File not found" before
\* the format, and with it the dependency, is looked at).
C6_MissingDependencyNamed ==
    (C6_DependencyAbsent /\ (call.h = "read_file_tool" => call.file.exists))
        => C6_FailsNamingDependency

\* an existing PDF read on a host without PyMuPDF: failure naming PyMuPDF
C6_Witness ==
    /\ pc = "done"
    /\ call.h = "read_file_tool"
    /\ call.file.exists
    /\ C6_Needs(call) = "fitz"
    /\ "fitz" \notin deps
    /\ StartsWith(result, CrossMark)
    /\ Contains(result, "PyMuPDF")

\* C7: every value a handler of Jarvis_window_CTRL returns is ok = true with
\* no error field, or ok = false with an error that is a non-empty string.
C7_Envelope ==
    (pc = "done" /\ call.h \in CtrlHandlers) =>
        \/ result.ok = TRUE /\ "error" \notin DOMAIN result
        \/ result.ok = FALSE /\ "error" \in DOMAIN result /\ Truthy(result.error)

\* the truncation law for text `t`, bound `b` and returned string `r`
C8_Law(t, b, r) ==
    IF Len(t) > b
    THEN /\ Contains(r, Take(t, b) \o "...\n")
         /\ ~Contains(r, Take(t, b + 1))
         /\ Contains(r, ToString(Len(t)))
    ELSE /\ EndsWith(r, t)
         /\ ~Contains(r, "...\n" \o HintMark)

\* C8: truncation law of the three reading tools: a text longer than the
\* bound is returned as its first B characters, the truncation marker and its
\* full length; a text within the bound is returned whole, without marker.
C8_TruncationLaw ==
    pc = "done" =>
        CASE call.h = "read_file_tool" /\ call.file.fault # "race" ->
               C8_Law(read_any_file(call.file, deps), FileBound, result)
          [] call.h = "read_screen_tool" ->
               C8_Law(read_screen_once(call.screen, deps), ScreenBound, result)
          [] call.h = "read_screen_area_tool" ->
               C8_Law(read_specific_area(call.screen, deps), AreaBound, result)
          [] OTHER -> TRUE

\* a call create_folder(path=None) completes in this step
C9_Completes ==
    /\ pc = "thread"
    /\ call.h = "create_folder"
    /\ call.path = None
    /\ pc' = "done"

\* C9: create_folder(path=None) where the default folder does not exist
\* creates it and returns Success with the resolved default location (unless
\* the OS refuses the creation, which is returned as a Failure and changes
\* nothing); where the folder exists already, as after a first call, every
\* further call is Success with the same path and leaves the filesystem
\* unchanged.
C9_CreateFolderIdempotent ==
    [][C9_Completes =>
        /\ (fs[DefaultNewFolder] = "absent" /\ result'.ok) =>
              /\ result' = [ok |-> TRUE, path |-> DefaultNewFolder]
              /\ fs' = [fs EXCEPT ![DefaultNewFolder] = "dir"]
        /\ (fs[DefaultNewFolder] = "absent" /\ ~result'.ok) =>
              /\ result' = Failure(PermErrMsg)
              /\ fs' = fs
        /\ fs[DefaultNewFolder] = "dir" =>
              /\ result' = [ok |-> TRUE, path |-> DefaultNewFolder]
              /\ fs' = fs]_vars

\* create_folder(path=None) has returned Success and the default folder exists
C9_Witness ==
    /\ pc = "done"
    /\ call.h = "create_folder"
    /\ call.path = None
    /\ result = [ok |-> TRUE, path |-> DefaultNewFolder]
    /\ fs[DefaultNewFolder] = "dir"

\* C10 as stated: for an app argument that is not one of the supported names
\* the call returns Failure, the error contains the argument as passed, and
\* nothing is launched.
C10_AsStated ==
    (pc = "done" /\ call.h = "open_common_app"
        /\ call.app_arg \notin SupportedApps) =>
        /\ result.ok = FALSE
        /\ Contains(result.error, call.app_arg)
        /\ launched = {}

\* C10, amended: for an app argument whose lower-cased, stripped form is not
\* one of the supported names the call returns at once with the Failure
\* "Unsupported app: <that form>", and nothing is launched.
C10_UnsupportedNormalized ==
    (call.h = "open_common_app"
        /\ Strip(Lower(call.app_arg)) \notin SupportedApps) =>
        /\ pc = "done"
        /\ result = Failure("Unsupported app: " \o Strip(Lower(call.app_arg)))
        /\ launched = {}

\* " Spotify" is refused under the name "spotify"
C10_Witness ==
    /\ pc = "done"
    /\ call.h = "open_common_app"
    /\ call.app_arg = " Spotify"
    /\ result = Failure("Unsupported app: spotify")
    /\ launched = {}

\* C11: cancel_shutdown returns Success with an informational payload when
\* `shutdown /a` exits with the benign code 1116 (no shutdown was in
\* progress), and Failure only for the other non-zero codes.
C11_BenignCodeIsSuccess ==
    (pc = "done" /\ call.h = "cancel_shutdown" /\ proc.st = "exited") =>
        /\ proc.returncode \in {0, 1116} => result.ok = TRUE
        /\ proc.returncode \notin {0, 1116} => result.ok = FALSE

\* the capture or extraction of the call in flight ran without fault and
\* yielded 0 characters of text
C12_ZeroText ==
    CASE call.h = "read_file_tool" ->
           /\ opens_file(call.file, deps)
           /\ call.file.fault = "none"
           /\ call.file.text = ""
      [] call.h \in {"read_screen_tool", "read_screen_area_tool"} ->
           /\ grabs_screen(deps)
           /\ ~call.screen.fault
           /\ Strip(call.screen.text) = ""
      [] OTHER -> FALSE

\* C12: when the capture or extraction yields 0 characters, every reading
\* tool returns a failure-marked result or an explicit "No text ..." result,
\* never a success-marked result with an empty body.
C12_ZeroTextPolicy ==
    (pc = "done" /\ C12_ZeroText) =>
        \/ StartsWith(result, CrossMark)
        \/ Contains(result, "No text")

\* the call `c`, made on a host with filesystem `f` and dependencies `d`,
\* violates the precondition its handler validates
C13_PreconditionViolated(c, f, d) ==
    CASE c.h = "list_folder_items" ->
           LET p == IF Truthy(c.path) THEN c.path ELSE Cwd
           IN  ~Exists(f, p) \/ ~IsDir(f, p)
      [] c.h = "open_file" -> Truthy(c.path) /\ ~Exists(f, c.path)
      [] c.h = "open_pdf_in_folder" ->
           LET p == PyOr(c.folder, DocumentsDir)
           IN  ~Exists(f, p) \/ ~IsDir(f, p)
      [] c.h = "send_whatsapp_message" ->
           ~Truthy(c.phone_number) \/ ~Truthy(c.message)
      [] c.h = "open_common_app" -> Strip(Lower(c.app_arg)) \notin SupportedApps
      [] c.h = "capture_photo" -> "cv2" \notin d
      [] OTHER -> FALSE

\* a handler is called in this step with a violated precondition
C13_CalledInViolation ==
    /\ pc \in Free
    /\ <<pc, call, result>>' # <<pc, call, result>>
    /\ C13_PreconditionViolated(call', fs, deps)

\* C13: a call that violates the precondition its handler validates returns
\* Failure in the step of the call itself, before any blocking operation,
\* process spawn, launch or filesystem write: files, directories and launched
\* targets are unchanged.
C13_FailsBeforeSideEffects ==
    [][C13_CalledInViolation =>
        /\ pc' = "done"
        /\ result'.ok = FALSE
        /\ Truthy(result'.error)
        /\ fs' = fs
        /\ launched' = {}
        /\ used' = {}
        /\ proc' = NoProc
        /\ blocking' = "none"]_vars

\* open_pdf_in_folder on a folder that does not exist has returned its Failure
C13_Witness ==
    /\ pc = "done"
    /\ call.h = "open_pdf_in_folder"
    /\ call.folder = "C:/nowhere"
    /\ C13_PreconditionViolated(call, fs, deps)
    /\ result = Failure("Invalid folder")
    /\ launched = {}

\* run_application_or_media is the handler called, in flight or returned
C14_Running(c) == c.h = "run_application_or_media"

\* what holds of a call of run_application_or_media in every state
C14_State ==
    C14_Running(call) =>
        LET app == call.app
            exe == IF Truthy(app) THEN Which(app) ELSE None
            byPath == Truthy(app) /\ exe = None /\ Exists(fs, app)
            folder == PyOr(call.folder, VideosDir)
        IN  /\ pc \notin Free => launched = {}
            /\ (pc \notin Free /\ call.at = "exec") => exe # None
            /\ (pc \notin Free /\ call.at = "glob") =>
                  /\ exe = None /\ ~byPath
                  /\ call.i \in 1..Len(MediaExts)
                  /\ call.ext = MediaExts[call.i]
            /\ (pc = "done" /\ result.ok) =>
                  /\ exe # None =>
                        result = [ok |-> TRUE, ran |-> exe] /\ launched = {exe}
                  /\ byPath =>
                        result = [ok |-> TRUE, opened |-> app] /\ launched = {app}
                  /\ (exe = None /\ ~byPath) =>
                        /\ "opened" \in DOMAIN result
                        /\ launched = {result.opened}
                        /\ StartsWith(result.opened, folder \o "/")
                        /\ EndsWith(result.opened, SubSeq(call.ext, 2, Len(call.ext)))
            /\ (pc = "done" /\ ~result.ok) =>
                  /\ launched = {}
                  /\ result.error = "No file or app found" =>
                        exe = None /\ ~byPath /\ call.i = Len(MediaExts)

\* C14: run_application_or_media resolves its target by executable lookup,
\* then by existence as a path, then by the first file matching *.mp4, *.mp3,
\* *.mkv in this order, a later step only after the earlier ones found
\* nothing; a Success reports exactly the one target launched; a Failure
\* launches nothing.
C14_FallbackOrder ==
    [][/\ C14_State'
       /\ (pc \in Free /\ C14_Running(call') /\ pc' = "loop") => call'.i = 1
       /\ (pc = "loop" /\ C14_Running(call) /\ pc' = "loop") =>
             call'.i = call.i + 1]_vars

\* a media file found by the second pattern is the one target launched
C14_Witness ==
    /\ pc = "done"
    /\ C14_Running(call)
    /\ call.app = "nothing"
    /\ call.i = 2
    /\ result.ok
    /\ EndsWith(result.opened, ".mp3")
    /\ launched = {result.opened}

\* the part of `url` after the first occurrence of `key` (the value of the
\* last parameter of the URLs the handlers build)
C15_After(url, key) ==
    LET at == {i \in 1..(Len(url) - Len(key) + 1) :
                  SubSeq(url, i, i + Len(key) - 1) = key}
        first == CHOOSE i \in at : \A j \in at : i <= j
    IN  IF at = {} THEN "" ELSE SubSeq(url, first + Len(key), Len(url))

\* the character a percent escape stands for
C15_Unescape(esc) ==
    CASE esc = "%20" -> " "
      [] esc = "%26" -> "&"
      [] esc = "%3D" -> "="
      [] esc = "%23" -> "#"
      [] esc = "%25" -> "%"
      [] esc = "%2B" -> "+"
      [] esc = "%3F" -> "?"
      [] OTHER -> esc

RECURSIVE C15_Decode(_)
\* decoding of a query component: percent escapes, and "+" for a space
C15_Decode(s) ==
    IF Len(s) = 0 THEN ""
    ELSE IF SubSeq(s, 1, 1) = "%" /\ Len(s) >= 3
    THEN C15_Unescape(SubSeq(s, 1, 3)) \o C15_Decode(SubSeq(s, 4, Len(s)))
    ELSE IF SubSeq(s, 1, 1) = "+"
    THEN " " \o C15_Decode(SubSeq(s, 2, Len(s)))
    ELSE SubSeq(s, 1, 1) \o C15_Decode(SubSeq(s, 2, Len(s)))

\* the encoded value `v` carries the user's `text`: no reserved character is
\* left unencoded in it and it decodes back to the text
C15_Encodes(v, text) ==
    /\ \A ch \in {" ", "&", "=", "#", "?"} : ~Contains(v, ch)
    /\ C15_Decode(v) = text

\* C15: the URL opened for a google search or a WhatsApp message carries the
\* user's text percent-encoded: its query value holds no unencoded reserved
\* character and decodes back to exactly that text.
C15_UrlEncodesUserText ==
    (pc = "done" /\ call.h \in {"open_common_app", "send_whatsapp_message"}
        /\ result.ok) =>
        CASE call.h = "send_whatsapp_message" ->
               \A url \in launched :
                   C15_Encodes(C15_After(url, "&text="), call.message)
          [] call.app \in {"google", "search"} /\ Truthy(call.query) ->
               \A url \in launched :
                   C15_Encodes(C15_After(url, "?q="), call.query)
          [] OTHER -> TRUE

\* how many times entrypoint has awaited the coroutine `name`
C16_Awaited(name) ==
    Cardinality({i \in 1..Len(call.trace) : call.trace[i] = name})

\* entrypoint has finished: it returned, or an exception left it
C16_Finished == call.h = "entrypoint" /\ pc \in {"done", "raised"}

\* C16: when entrypoint finishes, session.stop() has been awaited exactly once
\* if the AgentSession was created and never if it was not; a CancelledError
\* thrown at an await leaves entrypoint, and nothing else does: not an
\* Exception of the try block, not a failure of session.stop().
C16_StopExactlyOnce ==
    /\ call.h = "entrypoint" => C16_Awaited("session.stop") <= 1
    /\ C16_Finished =>
          /\ C16_Awaited("session.stop") =
                 (IF C16_Awaited("session.start") > 0
                     \/ \E i \in 1..Len(call.thrown) :
                            call.thrown[i] \in {"session.history failed"}
                  THEN 1 ELSE 0)
          /\ C16_Awaited("session.stop") = 1 =>
                 call.trace[Len(call.trace)] = "session.stop"
          /\ pc = "raised" <=>
                 \E i \in 1..Len(call.thrown) : call.thrown[i] = "CancelledError"
          /\ pc = "raised" => exc = "CancelledError"
          /\ pc = "done" => exc = None /\ result = None

\* cancelled inside session.start, then session.stop() itself fails: the
\* failure is dropped and the CancelledError leaves entrypoint
C16_Witness ==
    /\ C16_Finished
    /\ call.thrown = <<"CancelledError", "session.stop failed">>
    /\ call.trace = <<"get_formatted_datetime", "get_current_city",
                      "session.start", "session.stop">>
    /\ exc = "CancelledError"

\* the read or the capture of the call in flight did not yield the text: the
\* file is missing or of a format that cannot be read, the library is
\* absent, or the read or the screen grab raised
C17_ReadFailed ==
    CASE call.h = "read_file_tool" ->
           ~(opens_file(call.file, deps) /\ call.file.fault = "none")
      [] call.h \in {"read_screen_tool", "read_screen_area_tool"} ->
           ~(grabs_screen(deps) /\ ~call.screen.fault)
      [] OTHER -> FALSE

\* C17: a reading tool returns a failure-marked result exactly when the read
\* or the capture failed; whatever text a readable file or the screen holds,
\* the result is the success form.
C17_FailureIffReadFailed ==
    (pc = "done"
        /\ call.h \in {"read_file_tool", "read_screen_tool",
                       "read_screen_area_tool"}) =>
        (StartsWith(result, CrossMark) <=> C17_ReadFailed)

====
